---- MODULE Spec2Model ----
(***************************************************************************)
(* Model of the card/list position handling (backend/src/routes/cards.ts,  *)
(* backend/src/routes/comments.ts [list routes], frontend/src/pages/       *)
(* Board.tsx handleDragEnd) and of the Socket.IO relay broker              *)
(* (setupSocketHandlers).                                                  *)
(*                                                                         *)
(* Every await of a handler is a separate step: a request is a record in   *)
(* `reqs` (HTTP) or `pending` (socket handlers) whose `phase` names the    *)
(* next awaited call.                                                      *)
(***************************************************************************)
EXTENDS Integers, Sequences, FiniteSets, Bags, TLC

\* ---------------------------------------------------------------- domains
None == "none"

Users == {"u1", "u2"}
GhostUser == "u3"
Boards == {"b1", "b2"}
Lists == {"l1", "l2"}
CardIds == <<"A", "C">>
Cards == {CardIds[i] : i \in 1..Len(CardIds)}

\* bounds of the model
MaxReqs == 2
MaxPending == 1

\* the position increment used by the create routes and by handleDragEnd
STEP == 1000
NoPos == 0

\* board ownership and membership rows
BoardOwner == [b \in Boards |-> IF b = "b1" THEN "u1" ELSE "u2"]
BoardMembers == [b \in Boards |-> IF b = "b1" THEN {"u1", "u2"} ELSE {"u2"}]

\* the user whose Board page (for ViewBoard) is modelled
ViewUser == "u1"
ViewBoard == "b1"

VARIABLES
  boards,        \* board rows that exist
  listBoard,     \* list id -> boardId, None when the list row does not exist
  listPos,       \* list id -> position
  cardList,      \* card id -> listId, None when the card row does not exist
  cardPos,       \* card id -> position
  lastActivity,  \* newest row of the activity table
  reqs,          \* HTTP requests between two awaits
  lastStatus,    \* status code of the response sent in this step, 0 when none
  view,          \* the React Query cache entry ['board', ViewBoard] of ViewUser
  conn,          \* socket id -> [status, user]
  rooms,         \* board id -> set of socket ids in room board-<id>
  pending,       \* socket handlers suspended at their await
  lastAuth,      \* the handshake that io.use decided in this step
  lastJoin,      \* outcome of the join-board handler that resumed in this step
  lastRelay,     \* the emit made in this step, NoRelay when the step emits none
  lastError,     \* what this step sent back to the socket whose request failed
  between,       \* a between-items insertion: the neighbours and the stored key
  paging,        \* a call of the pagination helpers: its arguments and result
  boardTitle,    \* board id -> title of the board row
  cache,         \* user id -> the GET /boards response held by MemoryCache
  lastListing,   \* the GET /boards response sent in this step
  sent,          \* history: the join-board / leave-board messages of a socket
  committed      \* history: the (card, list, position) rows written by moves

storeVars == <<boards, listBoard, listPos, cardList, cardPos, lastActivity,
               committed>>
httpVars == <<reqs, lastStatus>>
brokerVars == <<conn, rooms, pending, lastAuth, lastJoin, lastRelay, lastError>>
vars == <<boards, listBoard, listPos, cardList, cardPos, lastActivity,
          reqs, lastStatus, view, conn, rooms, pending, lastAuth, lastJoin,
          lastRelay, lastError, between, paging, boardTitle, cache,
          lastListing, sent, committed>>

NoActivity == [type |-> None, cardId |-> None, boardId |-> None]

\* sockets
Conns == {"k1", "k2"}
RelayTypes == {"card-updated", "card-moved", "comment-added", "list-updated",
               "lists-reordered"}
NoRelay == [type |-> None, board |-> None, origin |-> None, by |-> None,
            claimed |-> None, card |-> None, list |-> None, pos |-> NoPos,
            to |-> {}]
NoJoin == [conn |-> None, board |-> None, ok |-> FALSE]

\* a step of a route handler or of the client: the broker is not involved
NoAuth == [conn |-> None, token |-> [kind |-> "absent", userId |-> None],
           user |-> None]
\* the handlers of setupSocketHandlers hold no emit to the requesting socket
NoError == [to |-> None, event |-> None]
\* no between-items insertion has been computed
NoBetween == [lower |-> 0, upper |-> 0, stored |-> 0]
\* no call of the pagination helpers has been made
NoParam == [kind |-> "absent", n |-> 0]
NoPaging == [query |-> [page |-> NoParam, limit |-> NoParam], phase |-> "idle",
             page |-> 0, limit |-> 0,
             total |-> 0, totalPages |-> 0, hasNext |-> FALSE,
             hasPrev |-> FALSE]
\* no GET /boards response in this step
NoListing == [user |-> None, hit |-> FALSE, data |-> {}]
\* no join-board or leave-board message yet
NoSent == [k \in Conns |-> [b \in Boards |-> <<>>]]
\* the step emits nothing on a socket
NoOutput == /\ lastRelay' = NoRelay /\ lastJoin' = NoJoin /\ lastAuth' = NoAuth
            /\ lastError' = NoError
\* a step that handles a join-board or leave-board message: what it leaves
\* alone besides the history of these messages
QuietSocket == /\ NoOutput
               /\ lastListing' = NoListing
               /\ UNCHANGED <<between, paging, boardTitle, cache>>
Quiet == QuietSocket /\ UNCHANGED sent
BrokerIdle == UNCHANGED <<conn, rooms, pending>> /\ Quiet

\* ---------------------------------------------------------------- storage
\* where: { id: b, OR: [{ ownerId: u }, { members: { some: { userId: u } } }] }
HasBoardAccess(u, b) ==
  /\ b \in boards
  /\ (BoardOwner[b] = u \/ u \in BoardMembers[b])

\* prisma.list.findFirst({ where: { id, board: { OR: [...] } } }) is non-null
ListAccessible(u, l) ==
  /\ l \in Lists
  /\ listBoard[l] # None
  /\ HasBoardAccess(u, listBoard[l])

\* prisma.card.findFirst({ where: { id, list: { board: { OR: [...] } } } })
CardAccessible(u, c) ==
  /\ c \in Cards
  /\ cardList[c] # None
  /\ ListAccessible(u, cardList[c])

CardsIn(l) == {c \in Cards : cardList[c] = l}
ListsIn(b) == {l \in Lists : listBoard[l] = b}

\* findFirst({ where: { listId }, orderBy: { position: 'desc' } })?.position
LastCardPosition(l) ==
  IF CardsIn(l) = {} THEN NoPos
  ELSE CHOOSE p \in {cardPos[c] : c \in CardsIn(l)} :
         \A c \in CardsIn(l) : cardPos[c] <= p

\* findFirst({ where: { boardId }, orderBy: { position: 'desc' } })?.position
LastListPosition(b) ==
  IF ListsIn(b) = {} THEN NoPos
  ELSE CHOOSE p \in {listPos[l] : l \in ListsIn(b)} :
         \A l \in ListsIn(b) : listPos[l] <= p

\* variant: the new row takes the position of the last sibling
AllocateInitial_Tie(last) == IF last = NoPos THEN STEP ELSE last

\* last ? last.position + 1000 : 1000
AllocateInitial(last) == IF last = NoPos THEN STEP ELSE last + STEP

\* id generation: the first id not yet used by a row
FreshCard == CardIds[CHOOSE i \in 1..Len(CardIds) :
                 /\ cardList[CardIds[i]] = None
                 /\ \A j \in 1..(i-1) : cardList[CardIds[j]] # None]
FreshList == CHOOSE l \in Lists : listBoard[l] = None

\* ---------------------------------------------------------------- requests
\* `reqs` is a bag: two requests that agree in every field are two requests
Req(kind, user, card, list, board, pos, phase) ==
  [kind |-> kind, user |-> user, card |-> card, list |-> list, board |-> board,
   pos |-> pos, phase |-> phase, dst |-> -1]

InFlight == BagToSet(reqs)
Accept(r) == reqs' = reqs (+) SetToBag({r})

CreatesInFlight(kind) ==
  BagCardinality([r \in {q \in InFlight : q.kind = kind} |-> reqs[r]])
CardRows == Cardinality({c \in Cards : cardList[c] # None})
ListRows == Cardinality({l \in Lists : listBoard[l] # None})

Advance(r, r2) == reqs' = (reqs (-) SetToBag({r})) (+) SetToBag({r2})
Respond(r, status) == /\ reqs' = reqs (-) SetToBag({r})
                      /\ lastStatus' = status

\* -------------------------------------------------- POST /cards (cards.ts)
\* request arrival up to the result of the list access query
PostCard(u, l) ==
  /\ BagCardinality(reqs) < MaxReqs
  /\ CardRows + CreatesInFlight("createCard") < Len(CardIds)
  /\ IF ListAccessible(u, l)
       THEN /\ Accept(Req("createCard", u, None, l, listBoard[l], NoPos, "read"))
            /\ lastStatus' = 0
       ELSE /\ lastStatus' = 403
            /\ UNCHANGED reqs
  /\ UNCHANGED <<storeVars, view>>
  /\ BrokerIdle

\* position is undefined: read the last card of the list
PostCardRead(r) ==
  /\ r.kind = "createCard" /\ r.phase = "read"
  /\ Advance(r, [r EXCEPT !.pos = AllocateInitial(LastCardPosition(r.list)),
                          !.phase = "create"])
  /\ lastStatus' = 0
  /\ UNCHANGED <<storeVars, view>>
  /\ BrokerIdle

\* prisma.card.create; a create for a list row that is gone is rejected by
\* the foreign key and the handler answers 500
PostCardCreate(r) ==
  /\ r.kind = "createCard" /\ r.phase = "create"
  /\ IF listBoard[r.list] # None
       THEN /\ cardList' = [cardList EXCEPT ![FreshCard] = r.list]
            /\ cardPos' = [cardPos EXCEPT ![FreshCard] = r.pos]
            /\ Advance(r, [r EXCEPT !.card = FreshCard, !.phase = "log"])
            /\ lastStatus' = 0
       ELSE /\ Respond(r, 500)
            /\ UNCHANGED <<cardList, cardPos>>
  /\ UNCHANGED <<boards, listBoard, listPos, lastActivity, view>>
  /\ UNCHANGED committed
  /\ BrokerIdle

\* prisma.activity.create, then res.status(201)
PostCardLog(r) ==
  /\ r.kind = "createCard" /\ r.phase = "log"
  /\ IF cardList[r.card] # None /\ r.board \in boards
       THEN /\ lastActivity' = [type |-> "card_created", cardId |-> r.card,
                                boardId |-> r.board]
            /\ Respond(r, 201)
       ELSE /\ Respond(r, 500)
            /\ UNCHANGED lastActivity
  /\ UNCHANGED <<boards, listBoard, listPos, cardList, cardPos, view>>
  /\ UNCHANGED committed
  /\ BrokerIdle

\* ------------------------------------------- POST /lists (comments.ts 194)
PostList(u, b) ==
  /\ BagCardinality(reqs) < MaxReqs
  /\ ListRows + CreatesInFlight("createList") < Cardinality(Lists)
  /\ IF HasBoardAccess(u, b)
       THEN /\ Accept(Req("createList", u, None, None, b, NoPos, "read"))
            /\ lastStatus' = 0
       ELSE /\ lastStatus' = 403
            /\ UNCHANGED reqs
  /\ UNCHANGED <<storeVars, view>>
  /\ BrokerIdle

PostListRead(r) ==
  /\ r.kind = "createList" /\ r.phase = "read"
  /\ Advance(r, [r EXCEPT !.pos = AllocateInitial(LastListPosition(r.board)),
                          !.phase = "create"])
  /\ lastStatus' = 0
  /\ UNCHANGED <<storeVars, view>>
  /\ BrokerIdle

\* prisma.list.create, then res.status(201)
PostListCreate(r) ==
  /\ r.kind = "createList" /\ r.phase = "create"
  /\ IF r.board \in boards
       THEN /\ listBoard' = [listBoard EXCEPT ![FreshList] = r.board]
            /\ listPos' = [listPos EXCEPT ![FreshList] = r.pos]
            /\ Respond(r, 201)
       ELSE /\ Respond(r, 500)
            /\ UNCHANGED <<listBoard, listPos>>
  /\ UNCHANGED <<boards, cardList, cardPos, lastActivity, view>>
  /\ UNCHANGED committed
  /\ BrokerIdle

\* ------------------------------------ PUT /lists/reorder (comments.ts 377)
\* an id that names no list row
GhostList == "l9"

\* the listIds arrays of a request body; body('listIds').isArray({ min: 1 })
\* puts no condition on the elements
MaxIds == 2
ListIdArrays ==
  UNION {[1..n -> Lists \cup {GhostList}] : n \in 0..MaxIds}

\* data: { position: (index + 1) * 1000 }
ReorderPosition(index) == (index + 1) * STEP

\* request arrival up to the result of the board access query; from there the
\* request holds one prisma.list.update per element of listIds, all issued by
\* Promise.all(updates)
PutReorder(u, b, ids) ==
  /\ BagCardinality(reqs) < MaxReqs
  /\ IF ids = <<>>
       THEN /\ lastStatus' = 400
            /\ UNCHANGED reqs
       ELSE IF HasBoardAccess(u, b)
         THEN /\ Accept([kind |-> "reorder", user |-> u, board |-> b,
                         ids |-> ids, todo |-> DOMAIN ids, failed |-> FALSE,
                         changed |-> FALSE, phase |-> "updates"])
              /\ lastStatus' = 0
         ELSE /\ lastStatus' = 403
              /\ UNCHANGED reqs
  /\ UNCHANGED <<storeVars, view>>
  /\ BrokerIdle

\* prisma.list.update({ where: { id } }) finds a row
ListRowExists(l) == l \in Lists /\ listBoard[l] # None

\* one of the updates of Promise.all(updates) completes. Each update is a
\* statement of its own: the first one that rejects makes Promise.all reject
\* and the catch block answer 500, the others still run; when all have
\* succeeded the handler answers with success. `changed` records whether a
\* write of this request has altered a stored position.
ReorderUpdate(r, i) ==
  /\ r.kind = "reorder" /\ r.phase = "updates"
  /\ i \in r.todo
  /\ LET l == r.ids[i]
         r2 == [r EXCEPT !.todo = @ \ {i},
                         !.failed = @ \/ ~ListRowExists(l),
                         !.changed = @ \/ (/\ ListRowExists(l)
                                           /\ listPos[l] # ReorderPosition(i - 1))]
     IN /\ listPos' = IF ListRowExists(l)
                        THEN [listPos EXCEPT ![l] = ReorderPosition(i - 1)]
                        ELSE listPos
        /\ IF r2.todo = {} THEN reqs' = reqs (-) SetToBag({r})
                            ELSE Advance(r, r2)
        /\ lastStatus' = IF ~ListRowExists(l) /\ ~r.failed THEN 500
                          ELSE IF r2.todo = {} /\ ~r2.failed THEN 200
                          ELSE 0
  /\ UNCHANGED <<boards, listBoard, cardList, cardPos, lastActivity, view>>
  /\ UNCHANGED committed
  /\ BrokerIdle

\* ------------------------------------ PUT /cards/:id/move (cards.ts 233)
\* the request as sent by the client: body { listId, position }
SendMove(u, c, l, p, dst) ==
  Accept([Req("move", u, c, l, None, p, "access") EXCEPT !.dst = dst])

\* Promise.all([card.findFirst, list.findFirst]); both queries are issued in
\* the same tick
MoveAccess(r) ==
  /\ r.kind = "move" /\ r.phase = "access"
  /\ IF CardAccessible(r.user, r.card) /\ ListAccessible(r.user, r.list)
       THEN /\ Advance(r, [r EXCEPT !.board = listBoard[r.list],
                                    !.phase = "update"])
            /\ lastStatus' = 0
            /\ UNCHANGED view
       ELSE /\ Respond(r, 404)
            /\ view' = IF r.dst >= 0 THEN [view EXCEPT !.stale = TRUE] ELSE view
  /\ UNCHANGED <<storeVars>>
  /\ BrokerIdle

\* variant: the update writes listId and leaves position to a later statement
MoveData_ListOnly(c, l, p) ==
  /\ cardList' = [cardList EXCEPT ![c] = l]
  /\ UNCHANGED cardPos

\* variant: the update also shifts the cards of the target list at or behind p
MoveData_Shift(c, l, p) ==
  /\ cardList' = [cardList EXCEPT ![c] = l]
  /\ cardPos' = [x \in Cards |->
                  IF x = c THEN p
                  ELSE IF cardList[x] = l /\ cardPos[x] >= p
                    THEN cardPos[x] + STEP
                    ELSE cardPos[x]]

\* the row written by prisma.card.update({ where: { id }, data })
MoveData(c, l, p) ==
  /\ cardList' = [cardList EXCEPT ![c] = l]
  /\ cardPos' = [cardPos EXCEPT ![c] = p]

MoveUpdate(r) ==
  /\ r.kind = "move" /\ r.phase = "update"
  /\ IF cardList[r.card] # None /\ listBoard[r.list] # None
       THEN /\ MoveData(r.card, r.list, r.pos)
            /\ Advance(r, [r EXCEPT !.phase = "log"])
            /\ lastStatus' = 0
            /\ UNCHANGED view
       ELSE /\ Respond(r, 500)
            /\ view' = IF r.dst >= 0 THEN [view EXCEPT !.stale = TRUE] ELSE view
            /\ UNCHANGED <<cardList, cardPos>>
  /\ UNCHANGED <<boards, listBoard, listPos, lastActivity>>
  /\ BrokerIdle

\* prisma.activity.create, then res.json
MoveLog(r) ==
  /\ r.kind = "move" /\ r.phase = "log"
  /\ IF cardList[r.card] # None /\ r.board \in boards
       THEN /\ lastActivity' = [type |-> "card_moved", cardId |-> r.card,
                                boardId |-> r.board]
            /\ Respond(r, 200)
            /\ UNCHANGED view
       ELSE /\ Respond(r, 500)
            /\ view' = IF r.dst >= 0 THEN [view EXCEPT !.stale = TRUE] ELSE view
            /\ UNCHANGED lastActivity
  /\ UNCHANGED <<boards, listBoard, listPos, cardList, cardPos>>
  /\ UNCHANGED committed
  /\ BrokerIdle

\* --------------------------------------- GET /boards/:id (boards.ts 208)
Injective(s) == \A i, j \in DOMAIN s : i # j => s[i] # s[j]

\* the orders that `orderBy: { position: 'asc' }` can return for the cards
\* of list l: rows with equal position come in an order the database picks
CardOrders(l) ==
  {s \in [1..Cardinality(CardsIn(l)) -> CardsIn(l)] :
     /\ Injective(s)
     /\ \A i, j \in DOMAIN s : i < j => cardPos[s[i]] <= cardPos[s[j]]}

\* useOptimizedBoard queryFn: the cache entry is replaced by the response
Fetch ==
  /\ HasBoardAccess(ViewUser, ViewBoard)
  /\ \E cs \in [Lists -> UNION {CardOrders(l) : l \in Lists}] :
       /\ \A l \in Lists : cs[l] \in CardOrders(l)
       /\ view' = [lists |-> ListsIn(ViewBoard),
                   cards |-> [l \in Lists |->
                               IF l \in ListsIn(ViewBoard) THEN cs[l] ELSE <<>>],
                   stale |-> FALSE]
  /\ lastStatus' = 0
  /\ UNCHANGED <<storeVars, reqs>>
  /\ BrokerIdle

\* --------------------------------- handleDragEnd (Board.tsx 205), cards
\* Array.splice(i, 1) and Array.splice(j, 0, x) with 0-based indexes
RemoveAt(s, i) == [k \in 1..(Len(s) - 1) |-> IF k <= i THEN s[k] ELSE s[k + 1]]
InsertAt(s, j, x) ==
  [k \in 1..(Len(s) + 1) |-> IF k <= j THEN s[k]
                             ELSE IF k = j + 1 THEN x ELSE s[k - 1]]

\* position: (index + 1) * 1000 of the moved card
DragPosition(index) == (index + 1) * STEP

DragCard(s, i, d, j) ==
  /\ BagCardinality(reqs) < MaxReqs
  /\ s \in view.lists /\ d \in view.lists
  /\ i \in 0..(Len(view.cards[s]) - 1)
  /\ ~(s = d /\ i = j)
  /\ LET moved == view.cards[s][i + 1]
         rest == RemoveAt(view.cards[s], i)
     IN IF s = d
          THEN /\ j \in 0..(Len(view.cards[s]) - 1)
               /\ view' = [view EXCEPT !.cards[s] = InsertAt(rest, j, moved)]
               /\ SendMove(ViewUser, moved, s, DragPosition(j), j)
          ELSE /\ j \in 0..Len(view.cards[d])
               /\ view' = [view EXCEPT
                             !.cards[s] = rest,
                             !.cards[d] = InsertAt(view.cards[d], j, moved)]
               /\ SendMove(ViewUser, moved, d, DragPosition(j), j)
  /\ lastStatus' = 0
  /\ UNCHANGED <<storeVars>>
  /\ BrokerIdle

\* ------------------- socket event handlers of the Board page (Board.tsx 154)
\* the socket of the Board page of ViewUser
ViewConn == "k1"

\* if (data.movedBy?.id !== user?.id), and the same test on updatedBy,
\* addedBy, reorderedBy in the other four handlers
Invalidates(by) == by # ViewUser

\* an event emitted in the last step reached the page's socket
Delivered == ViewConn \in lastRelay.to

\* handleCardMoved and its four siblings: invalidateQueries(['board', id])
\* unless the acting user is the page's own user
Receive ==
  /\ Delivered
  /\ view' = IF Invalidates(lastRelay.by) THEN [view EXCEPT !.stale = TRUE]
                                          ELSE view
  /\ lastStatus' = 0
  /\ UNCHANGED <<storeVars, reqs>>
  /\ BrokerIdle

\* an invalidated query that is mounted is fetched again
Refetch == view.stale /\ Fetch

\* ------------------------- DELETE /boards/:id (boards.ts 325), owner only
DeleteBoard(u, b) ==
  /\ BagCardinality(reqs) < MaxReqs
  /\ IF b \in boards /\ BoardOwner[b] = u
       THEN /\ Accept(Req("deleteBoard", u, None, None, b, NoPos, "delete"))
            /\ lastStatus' = 0
       ELSE /\ lastStatus' = 404
            /\ UNCHANGED reqs
  /\ UNCHANGED <<storeVars, view>>
  /\ BrokerIdle

\* variant: deleting a board empties its room
RoomsAfterDelete_Evict(b) == [rooms EXCEPT ![b] = {}]

\* the rooms after a board row is deleted: the route does not touch the
\* Socket.IO server, the room of the board keeps its sockets
RoomsAfterDelete(b) == rooms

\* prisma.board.delete; the rows of its lists and their cards go with it
\* (ON DELETE CASCADE, docs/lld.md 113-141)
DeleteBoardCommit(r) ==
  /\ r.kind = "deleteBoard" /\ r.phase = "delete"
  /\ IF r.board \in boards
       THEN /\ boards' = boards \ {r.board}
            /\ listBoard' = [l \in Lists |->
                              IF listBoard[l] = r.board THEN None ELSE listBoard[l]]
            /\ listPos' = [l \in Lists |->
                            IF listBoard[l] = r.board THEN NoPos ELSE listPos[l]]
            /\ cardList' = [c \in Cards |->
                             IF cardList[c] \in ListsIn(r.board) THEN None
                             ELSE cardList[c]]
            /\ cardPos' = [c \in Cards |->
                            IF cardList[c] \in ListsIn(r.board) THEN NoPos
                            ELSE cardPos[c]]
            /\ rooms' = RoomsAfterDelete(r.board)
            /\ Respond(r, 200)
       ELSE /\ Respond(r, 500)
            /\ UNCHANGED <<boards, listBoard, listPos, cardList, cardPos, rooms>>
  /\ UNCHANGED <<lastActivity, view>>
  /\ UNCHANGED committed
  /\ UNCHANGED <<conn, pending>>
  /\ Quiet

\* ------------------------------- setupSocketHandlers (seed.ts 295-500)
\* the credential of a handshake: handshake.auth.token or the bearer header
NoToken == [kind |-> "absent", userId |-> None]
NewConn == [status |-> "new", user |-> None]
Tokens == {NoToken, [kind |-> "malformed", userId |-> None],
           [kind |-> "expired", userId |-> "u1"]}
          \cup {[kind |-> "valid", userId |-> u] : u \in Users \cup {GhostUser}}

\* variant: the middleware without the user lookup
Authenticate_NoLookup(tok) ==
  IF tok.kind = "absent" THEN None
  ELSE IF tok.kind # "valid" THEN None
  ELSE tok.userId

\* io.use: the user the middleware attaches to the socket, None when it
\* calls next(new Error(...)): no token, jwt.verify throws, or no user row
Authenticate(tok) ==
  IF tok.kind = "absent" THEN None
  ELSE IF tok.kind # "valid" THEN None
  ELSE IF tok.userId \notin Users THEN None
  ELSE tok.userId

\* a handshake; only a socket that passed io.use gets the handlers of
\* io.on('connection')
Connect(k, tok) ==
  /\ conn[k].status = "new"
  /\ conn' = [conn EXCEPT ![k] =
                IF Authenticate(tok) # None
                  THEN [status |-> "connected", user |-> Authenticate(tok)]
                  ELSE [status |-> "rejected", user |-> None]]
  /\ lastAuth' = [conn |-> k, token |-> tok, user |-> Authenticate(tok)]
  /\ lastJoin' = NoJoin /\ lastRelay' = NoRelay /\ lastError' = NoError
  /\ lastStatus' = 0
  /\ UNCHANGED <<storeVars, reqs, view, rooms, pending, between>>
  /\ lastListing' = NoListing
  /\ UNCHANGED <<paging, boardTitle, cache, sent>>

\* `claimed` is the updatedBy / movedBy / addedBy / reorderedBy field of the
\* client's payload, None when the payload has none
Handler(k, kind, b, ok, c, l, p) ==
  [conn |-> k, kind |-> kind, board |-> b, ok |-> ok,
   card |-> c, list |-> l, pos |-> p, claimed |-> None]

Suspended == BagToSet(pending)

\* what a handler sends to its own socket when the access query returns no
\* board or throws: the `if (board)` has no else branch and the catch block
\* only calls console.error
Refusal(h) == NoError

\* socket.on('join-board'): the handler runs up to the result of
\* prisma.board.findFirst
JoinBoard(k, b) ==
  /\ conn[k].status = "connected"
  /\ BagCardinality(pending) < MaxPending
  /\ pending' = pending (+) SetToBag({Handler(k, "join-board", b,
                    HasBoardAccess(conn[k].user, b), None, None, NoPos)})
  /\ QuietSocket
  /\ lastStatus' = 0
  /\ UNCHANGED <<storeVars, reqs, view, conn, rooms>>

\* variant: socket.join without the `if (board)`
JoinRoom_Unchecked(ok, k, b) ==
  rooms' = [rooms EXCEPT ![b] = rooms[b] \cup {k}]

\* if (board) socket.join(`board-${boardId}`); whether join() on a socket
\* that has disconnected meanwhile still enters the room depends on the
\* Socket.IO release, so both outcomes are possible
JoinRoom(ok, k, b) ==
  \/ rooms' = IF ok THEN [rooms EXCEPT ![b] = rooms[b] \cup {k}] ELSE rooms
  \/ /\ ok /\ conn[k].status = "disconnected"
     /\ rooms' = rooms

JoinResume(h) ==
  /\ h.kind = "join-board"
  /\ pending' = pending (-) SetToBag({h})
  /\ JoinRoom(h.ok, h.conn, h.board)
  /\ lastJoin' = [conn |-> h.conn, board |-> h.board, ok |-> h.ok]
  /\ lastError' = Refusal(h)
  /\ lastRelay' = NoRelay /\ lastAuth' = NoAuth
  /\ lastStatus' = 0
  /\ UNCHANGED <<storeVars, reqs, view, conn, between>>
  /\ lastListing' = NoListing
  /\ UNCHANGED <<paging, boardTitle, cache, sent>>

\* variant: leave-board of a socket outside the room puts it in
LeaveRoom_Toggle(R, k, b) ==
  [R EXCEPT ![b] = IF k \in R[b] THEN R[b] \ {k} ELSE R[b] \cup {k}]

\* socket.leave(`board-${boardId}`) on the rooms R
LeaveRoom(R, k, b) == [R EXCEPT ![b] = R[b] \ {k}]

\* socket.on('leave-board')
LeaveBoard(k, b) ==
  /\ conn[k].status = "connected"
  /\ rooms' = LeaveRoom(rooms, k, b)
  /\ QuietSocket
  /\ lastStatus' = 0
  /\ UNCHANGED <<storeVars, reqs, view, conn, pending>>

\* socket.on('card-updated' | 'card-moved' | 'comment-added' | 'list-updated'
\* | 'lists-reordered'): the handler runs up to the result of findFirst
\* variant: the relay handlers skip the access query
MayRelay_Anyone(k, b) == TRUE

\* the access query of the relay handlers: the socket's user owns the board
\* or is a member of it; the socket's rooms are not consulted
MayRelay(k, b) == HasBoardAccess(conn[k].user, b)

RelayRequestAs(k, type, b, c, l, p, who) ==
  /\ conn[k].status = "connected"
  /\ BagCardinality(pending) < MaxPending
  /\ pending' = pending (+) SetToBag({[Handler(k, type, b,
                    MayRelay(k, b), c, l, p)
                      EXCEPT !.claimed = who]})
  /\ Quiet
  /\ lastStatus' = 0
  /\ UNCHANGED <<storeVars, reqs, view, conn, rooms>>

\* a payload without an acting-principal field
RelayRequest(k, type, b, c, l, p) == RelayRequestAs(k, type, b, c, l, p, None)

\* variant: { updatedBy: socket.user, ...data }, the payload's field wins
ActingPrincipal_PayloadLast(claimed, user) ==
  IF claimed # None THEN claimed ELSE user

\* { ...data, updatedBy: socket.user }: the key written after the spread
\* replaces a key of that name in data
ActingPrincipal(claimed, user) == user

\* variant: io.to(room), which includes the sender
Recipients_WithSender(k, b) ==
  {x \in rooms[b] : conn[x].status = "connected"}

\* variant: recipients filtered by their user's present access to the board
Recipients_Authorized(k, b) ==
  {x \in rooms[b] : /\ x # k /\ conn[x].status = "connected"
                    /\ HasBoardAccess(conn[x].user, b)}

\* socket.to(room): the sockets of the room that are connected, without the
\* sender
Recipients(k, b) ==
  {x \in rooms[b] : x # k /\ conn[x].status = "connected"}

\* if (board) socket.to(`board-${data.boardId}`).emit(type, {...data, by})
RelayResume(h) ==
  /\ h.kind \in RelayTypes
  /\ pending' = pending (-) SetToBag({h})
  /\ lastRelay' = IF h.ok
                    THEN [type |-> h.kind, board |-> h.board, origin |-> h.conn,
                          by |-> ActingPrincipal(h.claimed, conn[h.conn].user),
                          claimed |-> h.claimed, card |-> h.card,
                          list |-> h.list, pos |-> h.pos,
                          to |-> Recipients(h.conn, h.board)]
                    ELSE NoRelay
  /\ lastError' = Refusal(h)
  /\ lastJoin' = NoJoin /\ lastAuth' = NoAuth
  /\ lastStatus' = 0
  /\ UNCHANGED <<storeVars, reqs, view, conn, rooms, between>>
  /\ lastListing' = NoListing
  /\ UNCHANGED <<paging, boardTitle, cache, sent>>

\* the transport closes: Socket.IO takes the socket out of all its rooms,
\* socket.on('disconnect') logs
Disconnect(k) ==
  /\ conn[k].status = "connected"
  /\ conn' = [conn EXCEPT ![k].status = "disconnected"]
  /\ rooms' = [b \in Boards |-> rooms[b] \ {k}]
  /\ Quiet
  /\ lastStatus' = 0
  /\ UNCHANGED <<storeVars, reqs, view, pending>>

\* ------------------------------------------------------------ specification
InitIdle ==
  /\ lastActivity = NoActivity
  /\ reqs = EmptyBag
  /\ lastStatus = 0
  /\ view = [lists |-> {}, cards |-> [l \in Lists |-> <<>>], stale |-> FALSE]
  /\ conn = [k \in Conns |-> NewConn]
  /\ rooms = [b \in Boards |-> {}]
  /\ pending = EmptyBag
  /\ lastAuth = NoAuth
  /\ lastJoin = NoJoin
  /\ lastRelay = NoRelay
  /\ lastError = NoError
  /\ between = NoBetween
  /\ paging = NoPaging
  /\ boardTitle = [b \in Boards |-> "t0"]
  /\ cache = [u \in Users |-> {}]
  /\ lastListing = NoListing
  /\ sent = NoSent
  /\ committed = {}

\* the database with both boards and no list or card rows
InitCreate ==
  /\ boards = Boards
  /\ listBoard = [l \in Lists |-> None]
  /\ listPos = [l \in Lists |-> NoPos]
  /\ cardList = [c \in Cards |-> None]
  /\ cardPos = [c \in Cards |-> NoPos]
  /\ InitIdle

\* the database with the lists of board b1 at 1000, 2000 (as seed.ts creates
\* them) and no card rows
Init ==
  /\ boards = Boards
  /\ listBoard = [l \in Lists |-> "b1"]
  /\ listPos = [l \in Lists |-> IF l = "l1" THEN STEP ELSE 2 * STEP]
  /\ cardList = [c \in Cards |-> None]
  /\ cardPos = [c \in Cards |-> NoPos]
  /\ InitIdle

MaxIndex == Len(CardIds)

CreateCardStep(U) ==
  \/ \E u \in U, l \in Lists : PostCard(u, l)
  \/ \E r \in InFlight : PostCardRead(r)
  \/ \E r \in InFlight : PostCardCreate(r)
  \/ \E r \in InFlight : PostCardLog(r)

CreateListStep ==
  \/ \E u \in Users, b \in Boards : PostList(u, b)
  \/ \E r \in InFlight : PostListRead(r)
  \/ \E r \in InFlight : PostListCreate(r)

MoveStep ==
  \/ \E r \in InFlight : MoveAccess(r)
  \/ \E r \in InFlight : MoveUpdate(r) /\ UNCHANGED committed
  \/ \E r \in InFlight : MoveLog(r)

ClientStep ==
  \/ Fetch
  \/ \E s \in Lists, d \in Lists, i \in 0..MaxIndex, j \in 0..MaxIndex :
       DragCard(s, i, d, j)

Next == CreateCardStep({ViewUser}) \/ MoveStep \/ ClientStep

Spec == Init /\ [][Next]_vars

NextCreate == CreateCardStep(Users) \/ CreateListStep

CreateSpec == InitCreate /\ [][NextCreate]_vars

\* ---- list reorders on a board that holds two lists
ReorderStep ==
  \/ \E u \in Users, b \in Boards, ids \in ListIdArrays : PutReorder(u, b, ids)
  \/ \E r \in InFlight, i \in 1..MaxIds : ReorderUpdate(r, i)

NextReorder == ReorderStep

ReorderSpec == Init /\ [][NextReorder]_vars

\* ---- list reorders next to a list of another board
\* each of the two boards holds one list, its first
InitTwoBoards ==
  /\ boards = Boards
  /\ listBoard = [l \in Lists |-> IF l = "l1" THEN "b1" ELSE "b2"]
  /\ listPos = [l \in Lists |-> STEP]
  /\ cardList = [c \in Cards |-> None]
  /\ cardPos = [c \in Cards |-> NoPos]
  /\ InitIdle

NextTwoBoards == ReorderStep

TwoBoardSpec == InitTwoBoards /\ [][NextTwoBoards]_vars

\* ---- between-items insertion (docs/lld.md, Fractional Positioning)
\* the position column is DECIMAL(10,2): a stored position is a whole number
\* of hundredths
Scale == 100
MaxGap == 15
Keys == (STEP * Scale)..(STEP * Scale + MaxGap)

\* newPosition = (item1.position + item2.position) / 2 as the column stores
\* it: the quotient itself when it has two decimals, else one of the two
\* hundredths next to it (which one depends on the digits of the quotient
\* that reach the database)
StoredMidpoints(lower, upper) ==
  IF (lower + upper) % 2 = 0
    THEN {(lower + upper) \div 2}
    ELSE {(lower + upper) \div 2, (lower + upper) \div 2 + 1}

\* two neighbours with lower < upper, in hundredths
InitBetween ==
  /\ boards = Boards
  /\ listBoard = [l \in Lists |-> "b1"]
  /\ listPos = [l \in Lists |-> IF l = "l1" THEN STEP ELSE 2 * STEP]
  /\ cardList = [c \in Cards |-> None]
  /\ cardPos = [c \in Cards |-> NoPos]
  /\ lastActivity = NoActivity
  /\ reqs = EmptyBag
  /\ lastStatus = 0
  /\ view = [lists |-> {}, cards |-> [l \in Lists |-> <<>>], stale |-> FALSE]
  /\ conn = [k \in Conns |-> NewConn]
  /\ rooms = [b \in Boards |-> {}]
  /\ pending = EmptyBag
  /\ lastAuth = NoAuth
  /\ lastJoin = NoJoin
  /\ lastRelay = NoRelay
  /\ lastError = NoError
  /\ paging = NoPaging
  /\ boardTitle = [b \in Boards |-> "t0"]
  /\ cache = [u \in Users |-> {}]
  /\ lastListing = NoListing
  /\ sent = NoSent
  /\ committed = {}
  /\ \E lower, upper \in Keys :
       /\ lower < upper
       /\ between = [lower |-> lower, upper |-> upper, stored |-> 0]

\* the new item is stored with the between-items position
InsertBetween ==
  /\ between.stored = 0
  /\ \E m \in StoredMidpoints(between.lower, between.upper) :
       between' = [between EXCEPT !.stored = m]
  /\ lastStatus' = 0
  /\ lastRelay' = NoRelay /\ lastJoin' = NoJoin /\ lastAuth' = NoAuth
  /\ lastError' = NoError
  /\ lastListing' = NoListing
  /\ UNCHANGED <<storeVars, reqs, view, conn, rooms, pending>>
  /\ UNCHANGED <<paging, boardTitle, cache, sent>>

NextBetween == InsertBetween

BetweenSpec == InitBetween /\ [][NextBetween]_vars

\* ---- the broker with board deletion
\* payloads a client puts into a relayed message
Payloads == {[card |-> "A", list |-> "l1", pos |-> STEP],
             [card |-> "A", list |-> "l2", pos |-> 2 * STEP]}
NoPayload == [card |-> None, list |-> None, pos |-> NoPos]

InitBroker == Init

SocketStep ==
  \/ \E k \in Conns, tok \in Tokens : Connect(k, tok)
  \/ \E k \in Conns, b \in Boards : JoinBoard(k, b) /\ UNCHANGED sent
  \/ \E h \in Suspended : JoinResume(h)
  \/ \E k \in Conns, b \in Boards : LeaveBoard(k, b) /\ UNCHANGED sent
  \/ \E k \in Conns, t \in RelayTypes, b \in Boards :
       RelayRequest(k, t, b, NoPayload.card, NoPayload.list, NoPayload.pos)
  \/ \E h \in Suspended : RelayResume(h)
  \/ \E k \in Conns : Disconnect(k)

\* the board whose deletion is requested: the one both users can access
DeletedBoards == {"b1"}

DeleteStep ==
  \/ \E u \in Users, b \in DeletedBoards : DeleteBoard(u, b)
  \/ \E r \in InFlight : DeleteBoardCommit(r)

NextBroker == SocketStep \/ DeleteStep

BrokerSpec == InitBroker /\ [][NextBroker]_vars

\* ---- a card move next to the relay of card-moved messages
\* two sockets of the two users, both in the room of b1; card A in l1
InitSync ==
  /\ boards = Boards
  /\ listBoard = [l \in Lists |-> "b1"]
  /\ listPos = [l \in Lists |-> IF l = "l1" THEN STEP ELSE 2 * STEP]
  /\ cardList = [c \in Cards |-> IF c = "A" THEN "l1" ELSE None]
  /\ cardPos = [c \in Cards |-> IF c = "A" THEN STEP ELSE NoPos]
  /\ lastActivity = [type |-> "card_created", cardId |-> "A", boardId |-> "b1"]
  /\ reqs = EmptyBag
  /\ lastStatus = 0
  /\ view = [lists |-> {}, cards |-> [l \in Lists |-> <<>>], stale |-> FALSE]
  /\ conn = [k \in Conns |-> [status |-> "connected",
                              user |-> IF k = "k1" THEN "u1" ELSE "u2"]]
  /\ rooms = [b \in Boards |-> IF b = "b1" THEN Conns ELSE {}]
  /\ pending = EmptyBag
  /\ lastAuth = NoAuth
  /\ lastJoin = NoJoin
  /\ lastRelay = NoRelay
  /\ lastError = NoError
  /\ between = NoBetween
  /\ paging = NoPaging
  /\ boardTitle = [b \in Boards |-> "t0"]
  /\ cache = [u \in Users |-> {}]
  /\ lastListing = NoListing
  /\ sent = NoSent
  /\ committed = {}

\* PUT /cards/:id/move sent by a client of user u
ApiMove(u, d) ==
  /\ BagCardinality(reqs) < MaxReqs
  /\ SendMove(u, d.card, d.list, d.pos, -1)
  /\ lastStatus' = 0
  /\ UNCHANGED <<storeVars, view>>
  /\ BrokerIdle

ServerMoveStep ==
  \/ \E r \in InFlight : MoveAccess(r)
  \/ \E r \in InFlight :
       /\ MoveUpdate(r)
       /\ committed' = IF lastStatus' = 0
                         THEN committed \cup
                                {[card |-> r.card, list |-> r.list, pos |-> r.pos]}
                         ELSE committed
  \/ \E r \in InFlight : MoveLog(r)

ClientSyncStep ==
  \/ \E u \in Users, d \in Payloads : ApiMove(u, d)
  \/ \E k \in Conns, b \in Boards, d \in Payloads :
       RelayRequest(k, "card-moved", b, d.card, d.list, d.pos)

RelayStep == \E h \in Suspended : RelayResume(h)

NextSync == ClientSyncStep \/ ServerMoveStep \/ RelayStep

SyncSpec == InitSync /\ [][NextSync]_vars

\* the event loop runs every continuation that is ready; what clients send
\* is up to them
FairSyncSpec == SyncSpec /\ WF_vars(ServerMoveStep) /\ WF_vars(RelayStep)

\* ---- relays of payloads that name an acting principal themselves
\* what a client can put into the acting-principal field of its payload
ClaimedPrincipals == Users \cup {GhostUser, None}

TagRequestStep ==
  \E k \in Conns, t \in RelayTypes, b \in Boards, who \in ClaimedPrincipals :
    RelayRequestAs(k, t, b, NoPayload.card, NoPayload.list, NoPayload.pos, who)

NextTag == TagRequestStep \/ RelayStep \/ (\E k \in Conns : Disconnect(k))

TagSpec == InitSync /\ [][NextTag]_vars

\* ---- the Board page of ViewUser next to another client
\* both sockets are in the room of b1, the other socket belongs to either
\* user; the page has fetched the board, which holds card A in l1
InitPeer ==
  /\ boards = Boards
  /\ listBoard = [l \in Lists |-> "b1"]
  /\ listPos = [l \in Lists |-> IF l = "l1" THEN STEP ELSE 2 * STEP]
  /\ cardList = [c \in Cards |-> IF c = "A" THEN "l1" ELSE None]
  /\ cardPos = [c \in Cards |-> IF c = "A" THEN STEP ELSE NoPos]
  /\ lastActivity = [type |-> "card_created", cardId |-> "A", boardId |-> "b1"]
  /\ reqs = EmptyBag
  /\ lastStatus = 0
  /\ view = [lists |-> Lists,
             cards |-> [l \in Lists |-> IF l = "l1" THEN <<"A">> ELSE <<>>],
             stale |-> FALSE]
  /\ \E u \in Users :
       conn = [k \in Conns |-> [status |-> "connected",
                                user |-> IF k = ViewConn THEN ViewUser ELSE u]]
  /\ rooms = [b \in Boards |-> IF b = "b1" THEN Conns ELSE {}]
  /\ pending = EmptyBag
  /\ lastAuth = NoAuth
  /\ lastJoin = NoJoin
  /\ lastRelay = NoRelay
  /\ lastError = NoError
  /\ between = NoBetween
  /\ paging = NoPaging
  /\ boardTitle = [b \in Boards |-> "t0"]
  /\ cache = [u \in Users |-> {}]
  /\ lastListing = NoListing
  /\ sent = NoSent
  /\ committed = {}

\* what clients send: moves through the API and events on the socket
PeerSendStep ==
  /\ ~Delivered
  /\ \/ \E u \in Users, d \in Payloads : ApiMove(u, d)
     \/ \E k \in Conns, t \in RelayTypes :
          RelayRequest(k, t, ViewBoard, NoPayload.card, NoPayload.list,
                       NoPayload.pos)

\* the server's continuations; a delivered event is handled by the page
\* before anything else happens
PeerServerStep == ~Delivered /\ (ServerMoveStep \/ RelayStep)

PeerPageStep == Receive \/ (~Delivered /\ Refetch)

NextPeer == PeerSendStep \/ PeerServerStep \/ PeerPageStep

PeerSpec == InitPeer /\ [][NextPeer]_vars

\* the event loops of server and page run every continuation that is ready
FairPeerSpec ==
  PeerSpec /\ WF_vars(PeerServerStep) /\ WF_vars(PeerPageStep)

\* ---- the boards routes behind the response cache (boards.ts, MemoryCache)
Titles == {"t0", "t1"}

\* role of a board_members row: the creator's row is 'owner', the seed adds
\* the other user as 'member'
MemberRole(u, b) == IF BoardOwner[b] = u THEN "owner" ELSE "member"

\* the where clause of router.put('/:id')
CanEditBoard(u, b) ==
  /\ b \in boards
  /\ \/ BoardOwner[b] = u
     \/ u \in BoardMembers[b] /\ MemberRole(u, b) \in {"owner", "admin"}

\* what GET /boards reads for user u: the boards u owns or is a member of,
\* with their lists and cards
Listing(u) ==
  {[id |-> b, title |-> boardTitle[b],
    lists |-> {[id |-> l, position |-> listPos[l],
                cards |-> {[id |-> c, position |-> cardPos[c]] : c \in CardsIn(l)}]
               : l \in ListsIn(b)}]
   : b \in {x \in boards : HasBoardAccess(u, x)}}

BoardsIdle ==
  /\ NoOutput
  /\ UNCHANGED <<view, conn, rooms, pending, between, paging, sent>>

\* GET /boards: cacheMiddleware answers from the cache when it holds the key,
\* otherwise the handler's response is stored under the key
GetBoards(u) ==
  /\ IF cache[u] # {}
       THEN /\ lastListing' = [user |-> u, hit |-> TRUE, data |-> cache[u]]
            /\ UNCHANGED cache
       ELSE /\ lastListing' = [user |-> u, hit |-> FALSE, data |-> {Listing(u)}]
            /\ cache' = [cache EXCEPT ![u] = {Listing(u)}]
  /\ lastStatus' = 200
  /\ UNCHANGED <<storeVars, reqs, boardTitle>>
  /\ BoardsIdle

\* MemoryCache.get / cleanup drop an entry whose ttl has passed
Expire(u) ==
  /\ cache[u] # {}
  /\ cache' = [cache EXCEPT ![u] = {}]
  /\ lastStatus' = 0
  /\ lastListing' = NoListing
  /\ UNCHANGED <<storeVars, reqs, boardTitle>>
  /\ BoardsIdle

\* POST /boards: the creator becomes owner and only member; cache.clear()
PostBoard(u, b, t) ==
  /\ b \notin boards /\ b \notin DeletedBoards
  /\ BoardOwner[b] = u /\ BoardMembers[b] = {u}
  /\ boards' = boards \cup {b}
  /\ boardTitle' = [boardTitle EXCEPT ![b] = t]
  /\ cache' = [x \in Users |-> {}]
  /\ lastStatus' = 201
  /\ lastListing' = NoListing
  /\ UNCHANGED <<listBoard, listPos, cardList, cardPos, lastActivity, committed>>
  /\ UNCHANGED reqs
  /\ BoardsIdle

\* PUT /boards/:id up to the result of the access query
PutBoard(u, b, t) ==
  /\ BagCardinality(reqs) < MaxReqs
  /\ IF CanEditBoard(u, b)
       THEN /\ Accept([kind |-> "putBoard", user |-> u, board |-> b,
                       title |-> t, phase |-> "update"])
            /\ lastStatus' = 0
       ELSE /\ lastStatus' = 404
            /\ UNCHANGED reqs
  /\ lastListing' = NoListing
  /\ UNCHANGED <<storeVars, boardTitle, cache>>
  /\ BoardsIdle

\* prisma.board.update of PUT /boards/:id; a missing row throws into the
\* catch block
PutBoardUpdate(r) ==
  /\ r.kind = "putBoard" /\ r.phase = "update"
  /\ IF r.board \in boards
       THEN /\ boardTitle' = [boardTitle EXCEPT ![r.board] = r.title]
            /\ Respond(r, 200)
       ELSE /\ Respond(r, 500)
            /\ UNCHANGED boardTitle
  /\ lastListing' = NoListing
  /\ UNCHANGED <<storeVars, cache>>
  /\ BoardsIdle

\* board b1 with its two lists and card A; b2 does not exist yet
InitBoards ==
  /\ boards = {"b1"}
  /\ listBoard = [l \in Lists |-> "b1"]
  /\ listPos = [l \in Lists |-> IF l = "l1" THEN STEP ELSE 2 * STEP]
  /\ cardList = [c \in Cards |-> IF c = "A" THEN "l1" ELSE None]
  /\ cardPos = [c \in Cards |-> IF c = "A" THEN STEP ELSE NoPos]
  /\ InitIdle

ListingStep ==
  \/ \E u \in Users : GetBoards(u)
  \/ \E u \in Users : Expire(u)

BoardStep ==
  \/ \E u \in Users, b \in Boards, t \in Titles : PostBoard(u, b, t)
  \/ \E u \in Users, b \in Boards, t \in Titles : PutBoard(u, b, t)
  \/ \E r \in InFlight : PutBoardUpdate(r)

CardMoveStep ==
  \/ \E d \in Payloads : ApiMove(ViewUser, d)
  \/ MoveStep

NextBoards == ListingStep \/ BoardStep \/ DeleteStep \/ CardMoveStep

BoardSpec == InitBoards /\ [][NextBoards]_vars

\* ---- pagination of GET /boards
DEFAULT_PAGE == 1
DEFAULT_LIMIT == 10
MAX_LIMIT == 100
MaxPageParam == 3
MaxTotal == 12

\* a query parameter as it arrives: absent, a text that starts with no digit,
\* or a text that starts with the decimal digits of n (with or without sign)
PageParams ==
  {NoParam, [kind |-> "text", n |-> 0]}
    \cup {[kind |-> "digits", n |-> n] : n \in -1..MaxPageParam}
LimitParams ==
  PageParams \cup {[kind |-> "digits", n |-> n] : n \in {MAX_LIMIT, MAX_LIMIT + 1}}

\* parseInt(x): NaN unless the text starts with digits
ParseInt(x) ==
  IF x.kind = "digits" THEN [nan |-> FALSE, n |-> x.n] ELSE [nan |-> TRUE, n |-> 0]
\* parseInt(x) || d: NaN and 0 are falsy
OrDefault(r, d) == IF r.nan \/ r.n = 0 THEN d ELSE r.n
Max(a, b) == IF a >= b THEN a ELSE b
Min(a, b) == IF a <= b THEN a ELSE b

validatePaginationParams(params) ==
  [page  |-> Max(1, OrDefault(ParseInt(params.page), DEFAULT_PAGE)),
   limit |-> Min(MAX_LIMIT,
                 Max(1, OrDefault(ParseInt(params.limit), DEFAULT_LIMIT)))]

\* variant: the number of pages is rounded down
PageCount_Floor(total, limit) == total \div limit

\* Math.ceil(total / limit) for total >= 0 and limit >= 1
PageCount(total, limit) == (total + limit - 1) \div limit

createPaginationResponse(total, page, limit) ==
  LET totalPages == PageCount(total, limit)
  IN  [page |-> page, limit |-> limit, total |-> total,
       totalPages |-> totalPages,
       hasNext |-> page < totalPages,
       hasPrev |-> page > 1]

\* a GET /boards request with its query, and the count the database returns
InitPaging ==
  /\ boards = Boards
  /\ listBoard = [l \in Lists |-> "b1"]
  /\ listPos = [l \in Lists |-> IF l = "l1" THEN STEP ELSE 2 * STEP]
  /\ cardList = [c \in Cards |-> None]
  /\ cardPos = [c \in Cards |-> NoPos]
  /\ lastActivity = NoActivity
  /\ reqs = EmptyBag
  /\ lastStatus = 0
  /\ view = [lists |-> {}, cards |-> [l \in Lists |-> <<>>], stale |-> FALSE]
  /\ conn = [k \in Conns |-> NewConn]
  /\ rooms = [b \in Boards |-> {}]
  /\ pending = EmptyBag
  /\ lastAuth = NoAuth
  /\ lastJoin = NoJoin
  /\ lastRelay = NoRelay
  /\ lastError = NoError
  /\ between = NoBetween
  /\ boardTitle = [b \in Boards |-> "t0"]
  /\ cache = [u \in Users |-> {}]
  /\ lastListing = NoListing
  /\ sent = NoSent
  /\ committed = {}
  /\ \E p \in PageParams, l \in LimitParams, t \in 0..MaxTotal :
       paging = [NoPaging EXCEPT !.query = [page |-> p, limit |-> l],
                                 !.total = t]

PagingIdle ==
  /\ lastStatus' = 0
  /\ NoOutput
  /\ lastListing' = NoListing
  /\ UNCHANGED <<storeVars, reqs, view, conn, rooms, pending>>
  /\ UNCHANGED <<between, boardTitle, cache, sent>>

\* const { page, limit, ... } = validatePaginationParams(req.query)
ValidateQuery ==
  /\ paging.phase = "idle"
  /\ LET v == validatePaginationParams(paging.query)
     IN  paging' = [paging EXCEPT !.phase = "validated",
                                  !.page = v.page, !.limit = v.limit]
  /\ PagingIdle

\* const response = createPaginationResponse(boards, total, page, limit)
RespondPage ==
  /\ paging.phase = "validated"
  /\ LET r == createPaginationResponse(paging.total, paging.page, paging.limit)
     IN  paging' = [paging EXCEPT !.phase = "responded",
                                  !.totalPages = r.totalPages,
                                  !.hasNext = r.hasNext,
                                  !.hasPrev = r.hasPrev]
  /\ PagingIdle

NextPaging == ValidateQuery \/ RespondPage

PagingSpec == InitPaging /\ [][NextPaging]_vars

\* ---- join-board and leave-board messages of the sockets
\* the history keeps the newest MaxHistory messages per socket and board
MaxHistory == 2
Remember(k, b, m) ==
  sent' = [sent EXCEPT ![k][b] =
             IF Len(@) < MaxHistory THEN Append(@, m)
                                    ELSE Append(Tail(@), m)]

RoomStep ==
  \/ \E k \in Conns, b \in Boards : JoinBoard(k, b) /\ Remember(k, b, "join")
  \/ \E h \in Suspended : JoinResume(h)
  \/ \E k \in Conns, b \in Boards : LeaveBoard(k, b) /\ Remember(k, b, "leave")

NextRoom == RoomStep

RoomSpec == InitSync /\ [][NextRoom]_vars

\* ---- drags on a board that holds two cards
\* list l1 with cards A at 1000 and C at 2000 (seed.ts 122-160 creates the
\* cards of a list at 1000, 2000)
InitDrag ==
  /\ boards = Boards
  /\ listBoard = [l \in Lists |-> "b1"]
  /\ listPos = [l \in Lists |-> IF l = "l1" THEN STEP ELSE 2 * STEP]
  /\ cardList = [c \in Cards |-> "l1"]
  /\ cardPos = [c \in Cards |-> IF c = "A" THEN STEP ELSE 2 * STEP]
  /\ InitIdle

NextDrag == MoveStep \/ ClientStep

DragSpec == InitDrag /\ [][NextDrag]_vars

\* ================================================================ claims

\* C1: in every reachable state no two cards that share a listId have equal
\* position (drags of handleDragEnd persisted by PUT /cards/:id/move).
C1_SiblingPositionsDistinct ==
  \A c, d \in Cards :
    (c # d /\ cardList[c] # None /\ cardList[c] = cardList[d])
      => cardPos[c] # cardPos[d]

\* the request r moved from phase `from` to phase `to` in this step
Advanced(r, to) ==
  reqs' = (reqs (-) SetToBag({r})) (+) SetToBag({[r EXCEPT !.phase = to]})

\* C8: with list l1 holding A at 1000 and C at 2000, the drag of C to index 0
\* of l1 persists C with position 500, so that the persisted ascending order is
\* C(500), A(1000).
C8_DragToHeadPersists500 ==
  [][\A r \in InFlight :
       ( /\ r.kind = "move" /\ r.phase = "update"
         /\ r.card = "C" /\ r.list = "l1" /\ r.dst = 0
         /\ cardList["A"] = "l1" /\ cardPos["A"] = STEP
         /\ cardList["C"] = "l1" /\ cardPos["C"] = 2 * STEP
         /\ Advanced(r, "log") )
       => ( /\ cardPos'["C"] = 500
            /\ cardList'["C"] = "l1"
            /\ cardList'["A"] = "l1" /\ cardPos'["A"] = STEP )]_vars

\* the largest element of a non-empty set of positions
Largest(S) == CHOOSE m \in S : \A x \in S : x <= m

\* the position that append-to-end gives next to the sibling positions S
AfterSiblings(S) == IF S = {} THEN 1000 ELSE Largest(S) + 1000

\* C9: POST /cards and POST /lists without a position store the new row with
\* (largest sibling position read by the request) + 1000, or 1000 for an empty
\* container, which is above every sibling position the request read.
C9_AppendAfterLargestSibling ==
  [][ /\ \A r \in InFlight :
           (r.kind = "createCard" /\ r.phase = "read"
              /\ \E q \in BagToSet(reqs') : q.phase = "create" /\
                   reqs' = (reqs (-) SetToBag({r})) (+) SetToBag({q}))
           => \E q \in BagToSet(reqs') :
                /\ q = [r EXCEPT !.phase = "create", !.pos = q.pos]
                /\ q.pos = AfterSiblings({cardPos[c] : c \in CardsIn(r.list)})
                /\ \A c \in CardsIn(r.list) : q.pos > cardPos[c]
      /\ \A r \in InFlight :
           (r.kind = "createList" /\ r.phase = "read"
              /\ \E q \in BagToSet(reqs') : q.phase = "create" /\
                   reqs' = (reqs (-) SetToBag({r})) (+) SetToBag({q}))
           => \E q \in BagToSet(reqs') :
                /\ q = [r EXCEPT !.phase = "create", !.pos = q.pos]
                /\ q.pos = AfterSiblings({listPos[l] : l \in ListsIn(r.board)})
                /\ \A l \in ListsIn(r.board) : q.pos > listPos[l]
      /\ \A c \in Cards :
           (cardList[c] = None /\ cardList'[c] # None)
           => \E r \in InFlight :
                /\ r.kind = "createCard" /\ r.phase = "create"
                /\ cardList'[c] = r.list /\ cardPos'[c] = r.pos
                /\ r.pos >= 1000
      /\ \A l \in Lists :
           (listBoard[l] = None /\ listBoard'[l] # None)
           => \E r \in InFlight :
                /\ r.kind = "createList" /\ r.phase = "create"
                /\ listBoard'[l] = r.board /\ listPos'[l] = r.pos
                /\ r.pos >= 1000 ]_vars

\* a card stored at 2000 behind a sibling at 1000, and the same for two lists
C9_Witness ==
  /\ \E c, d \in Cards : /\ cardList[c] # None /\ cardList[c] = cardList[d]
                         /\ cardPos[c] = 1000 /\ cardPos[d] = 2000
  /\ \E l, m \in Lists : /\ listBoard[l] # None /\ listBoard[l] = listBoard[m]
                         /\ listPos[l] = 1000 /\ listPos[m] = 2000

\* C10: the cards created by concurrent POST /cards requests without position
\* for one list end with pairwise distinct positions.
C10_CreatedPositionsDistinct ==
  \A l \in Lists :
    Cardinality({cardPos[c] : c \in CardsIn(l)}) = Cardinality(CardsIn(l))

\* owner or member of an existing board
OwnerOrMember(u, b) ==
  b \in boards /\ (u = BoardOwner[b] \/ u \in BoardMembers[b])

\* C2: when c1 and c2 are in the room of card A's board and c1's user moves A
\* through PUT /cards/:id/move and the write commits, c2 eventually receives a
\* card-moved event for A and c1 does not.
C2_MoveReachesPeer ==
  \A c1, c2 \in Conns :
    ( /\ c1 # c2
      /\ {c1, c2} \subseteq rooms["b1"]
      /\ \E r \in InFlight : /\ r.kind = "move" /\ r.phase = "log"
                             /\ r.card = "A" /\ r.user = conn[c1].user )
    ~> ( /\ lastRelay.type = "card-moved" /\ lastRelay.card = "A"
         /\ c2 \in lastRelay.to /\ c1 \notin lastRelay.to )

\* C3: a join-board of a user who is neither owner nor member of the board
\* when the access query runs is refused; the refusal changes no room and
\* leaves the connection as it was, and a granted join of a connection that
\* is still open puts it in the room.
C3_RefusedJoinChangesNothing ==
  [][ /\ \A h \in BagToSet(pending') :
           (h.kind = "join-board" /\ pending' = pending (+) SetToBag({h}))
           => (h.ok <=> OwnerOrMember(conn[h.conn].user, h.board))
      /\ (lastJoin'.conn # None /\ ~lastJoin'.ok)
           => (rooms' = rooms /\ conn' = conn)
      /\ (lastJoin'.conn # None /\ lastJoin'.ok
            /\ conn[lastJoin'.conn].status = "connected")
           => lastJoin'.conn \in rooms'[lastJoin'.board] ]_vars

\* after a refused join the socket is connected, outside the refused room and
\* still in the room of a board it can access
C3_Witness ==
  /\ lastJoin.conn # None /\ ~lastJoin.ok
  /\ conn[lastJoin.conn].status = "connected"
  /\ lastJoin.conn \notin rooms[lastJoin.board]
  /\ \E b \in Boards : lastJoin.conn \in rooms[b]

\* C4: an event relayed on behalf of a connection is never delivered to that
\* connection, whatever the event type and also when it is in the room.
C4_NoEcho ==
  lastRelay.type # None => lastRelay.origin \notin lastRelay.to

\* a relay from a member of the room that reached another member
C4_Witness ==
  /\ lastRelay.type \in RelayTypes
  /\ lastRelay.origin \in rooms[lastRelay.board]
  /\ lastRelay.to # {}

\* C5 as stated: the receivers of an event relayed for b are the
\* non-originating connections in b's room whose user is at that moment
\* owner or member of b.
C5_ReceiversAuthorizedAndJoined ==
  lastRelay.type # None =>
    lastRelay.to = {k \in Conns :
                      /\ k # lastRelay.origin
                      /\ k \in rooms[lastRelay.board]
                      /\ conn[k].status = "connected"
                      /\ OwnerOrMember(conn[k].user, lastRelay.board)}

\* C5 amended: the receivers are the non-originating connections in b's
\* room, whether or not their user still has access to b.
C5_ReceiversJoined ==
  lastRelay.type # None =>
    lastRelay.to = {k \in Conns :
                      /\ k # lastRelay.origin
                      /\ k \in rooms[lastRelay.board]
                      /\ conn[k].status = "connected"}

\* an event reached a connection whose user has no access to the board
C5_Witness ==
  /\ lastRelay.type # None
  /\ \E k \in lastRelay.to : ~OwnerOrMember(conn[k].user, lastRelay.board)

\* a credential that is absent, fails verification or names no user row
BadToken(tok) ==
  \/ tok.kind \in {"absent", "malformed", "expired"}
  \/ tok.userId \notin Users

\* C6: a handshake whose token is absent, fails jwt verification or names a
\* user without a record is rejected; a rejected connection stays rejected,
\* is in no room, has no handler running and neither sends nor receives a
\* relayed event.
C6_BadTokenRejected ==
  /\ [][ /\ (lastAuth'.conn # None /\ BadToken(lastAuth'.token))
              => conn'[lastAuth'.conn].status = "rejected"
         /\ \A k \in Conns : conn[k].status = "rejected"
                               => conn'[k].status = "rejected" ]_vars
  /\ [](\A k \in Conns :
          conn[k].status = "rejected" =>
            /\ \A b \in Boards : k \notin rooms[b]
            /\ \A h \in Suspended : h.conn # k
            /\ lastJoin.conn # k
            /\ lastRelay.origin # k
            /\ k \notin lastRelay.to)

\* a connection rejected for an expired token while the other one is in a room
C6_Witness ==
  /\ lastAuth.conn # None /\ lastAuth.token.kind = "expired"
  /\ conn[lastAuth.conn].status = "rejected"
  /\ \E k \in Conns, b \in Boards : k \in rooms[b]

\* C7: a card-moved event that is relayed carries a (cardId, toListId,
\* position) that a move write committed before.
C7_RelayedMoveWasCommitted ==
  lastRelay.type = "card-moved" =>
    [card |-> lastRelay.card, list |-> lastRelay.list, pos |-> lastRelay.pos]
      \in committed

\* a PUT /lists/reorder request leaves with the success response in this step
ReorderSucceeds(r) ==
  /\ r.kind = "reorder"
  /\ reqs' = reqs (-) SetToBag({r})
  /\ lastStatus' = 200

C14_SamePlaceMoveWritesNothing ==
  (\A t \in committed : t = [card |-> "A", list |-> "l1", pos |-> STEP])
    => /\ committed = {}
       /\ lastActivity.type # "card_moved"

\* C15: a connection that has disconnected is in no board room and is
\* delivered no event, also when one of its join-board handlers was waiting
\* for the access query at the time of the disconnect.
C15_DisconnectedInNoRoom ==
  \A k \in Conns :
    conn[k].status = "disconnected" =>
      /\ \A b \in Boards : k \notin rooms[b]
      /\ k \notin lastRelay.to

\* C16: a connection in the room of b whose user loses access to b stays in
\* the room until it sends leave-board for b or disconnects, and until then
\* it receives what is relayed for b; a join-board for b whose access query
\* runs after the loss is refused.
C16_RoomOutlivesAccess ==
  [][ /\ \A k \in Conns, b \in Boards :
           (k \in rooms[b] /\ k \notin rooms'[b])
             => (LeaveBoard(k, b) \/ Disconnect(k))
      /\ lastRelay'.type # None
           => \A k \in rooms[lastRelay'.board] :
                (k # lastRelay'.origin /\ conn[k].status = "connected")
                  => k \in lastRelay'.to
      /\ \A h \in BagToSet(pending') :
           ( /\ h.kind = "join-board"
             /\ pending' = pending (+) SetToBag({h})
             /\ h.board \notin boards )
           => ~h.ok ]_vars

\* a connection still in the room of a deleted board received an event for it
C16_Witness ==
  /\ lastRelay.type # None
  /\ lastRelay.board \notin boards
  /\ \E k \in lastRelay.to : k \in rooms[lastRelay.board]

\* C17: when a join-board or relay handler ends without access to the
\* board, the requesting connection is sent an error outcome and no other
\* connection receives anything.
C17_RefusalReportedToRequester ==
  [][ \A h \in Suspended :
        (pending' = pending (-) SetToBag({h}) /\ ~h.ok)
          => /\ lastError'.to = h.conn
             /\ lastRelay'.to = {} ]_vars

\* C18: the acting-principal field of every relayed event is the user
\* authenticated for the originating connection, whatever field of that name
\* the client's payload carries.
C18_ActingPrincipalIsSender ==
  lastRelay.type # None => lastRelay.by = conn[lastRelay.origin].user

\* a relayed event whose payload named another user as acting principal
C18_Witness ==
  /\ lastRelay.type \in RelayTypes
  /\ lastRelay.claimed \in Users
  /\ lastRelay.claimed # conn[lastRelay.origin].user
  /\ lastRelay.to # {}

\* the update of move request r commits in this step
MoveCommits(r) ==
  /\ r.kind = "move" /\ r.phase = "update"
  /\ Advance(r, [r EXCEPT !.phase = "log"])

\* C19: concurrent PUT /cards/:id/move requests for one card all succeed and
\* the card's (listId, position) is at every moment the pair of one request
\* as a whole: a step that changes the row is the commit of one request and
\* leaves both of its fields in the row, a committed request is answered
\* with 200, and the row is the one of the creation, (l1, 1000), or one that
\* a move committed.
C19_LastMoveWinsWhole ==
  /\ [][ /\ \A c \in Cards :
              (cardList'[c] # cardList[c] \/ cardPos'[c] # cardPos[c])
                => \E r \in InFlight :
                     /\ MoveCommits(r) /\ r.card = c
                     /\ cardList'[c] = r.list /\ cardPos'[c] = r.pos
         /\ \A r \in InFlight :
              (r.kind = "move" /\ r.phase = "log"
                 /\ reqs' = reqs (-) SetToBag({r}))
                => lastStatus' = 200 ]_vars
  /\ [](\A c \in Cards :
          cardList[c] # None =>
            \/ cardList[c] = "l1" /\ cardPos[c] = STEP
            \/ [card |-> c, list |-> cardList[c], pos |-> cardPos[c]]
                 \in committed)

\* two requests of different users for card A with different targets have
\* both committed; the row is the one of the second commit
C19_Witness ==
  \E r1, r2 \in InFlight :
    /\ r1.kind = "move" /\ r2.kind = "move"
    /\ r1.phase = "log" /\ r2.phase = "log"
    /\ r1.card = r2.card /\ r1.user # r2.user
    /\ r1.list # r2.list /\ r1.pos # r2.pos
    /\ cardList[r1.card] = r1.list /\ cardPos[r1.card] = r1.pos

\* C20: the commit of a PUT /cards/:id/move writes listId and position of
\* the addressed card and of no other card, so concurrent moves of different
\* cards into one list leave each card with the values of its own request.
C20_MoveTouchesOneCard ==
  [][ \A r \in InFlight :
        MoveCommits(r) =>
          /\ cardList'[r.card] = r.list /\ cardPos'[r.card] = r.pos
          /\ \A c \in Cards \ {r.card} :
                cardList'[c] = cardList[c] /\ cardPos'[c] = cardPos[c] ]_vars

\* two moves of different cards into one list have both committed and each
\* card has the listId and position of its own request
C20_Witness ==
  \E r1, r2 \in InFlight :
    /\ r1.kind = "move" /\ r2.kind = "move"
    /\ r1.phase = "log" /\ r2.phase = "log"
    /\ r1.card # r2.card /\ r1.list = r2.list
    /\ cardList[r1.card] = r1.list /\ cardPos[r1.card] = r1.pos
    /\ cardList[r2.card] = r2.list /\ cardPos[r2.card] = r2.pos

\* the cached board of the page shows the lists of the board and, for each
\* list, its cards in an order of ascending stored position
ViewMatchesStore ==
  /\ view.lists = ListsIn(ViewBoard)
  /\ \A l \in view.lists : view.cards[l] \in CardOrders(l)

\* C21: when a card move has committed and no request is under way, the
\* page of a connected client in the board's room eventually shows the
\* persisted card order, unless a further change is made.
C21_PeerViewConverges ==
  (committed # {} /\ reqs = EmptyBag)
    ~> (ViewMatchesStore \/ reqs # EmptyBag)

\* C22: leave-board is idempotent: after a leave-board(b) of connection k a
\* second one changes no room, and a leave-board(b) of a connection that is
\* not in room b changes no room.
C22_LeaveIdempotent ==
  [][ \A k \in Conns, b \in Boards :
        LeaveBoard(k, b) =>
          /\ k \notin rooms'[b]
          /\ LeaveRoom(rooms', k, b) = rooms'
          /\ k \notin rooms[b] => rooms' = rooms ]_vars

\* the newest message of socket k for board b is m
LastSent(k, b, m) ==
  Len(sent[k][b]) > 0 /\ sent[k][b][Len(sent[k][b])] = m

\* a socket has sent leave-board twice in a row for a room that still holds
\* the other socket
C22_Witness ==
  \E k \in Conns, b \in Boards :
    /\ Len(sent[k][b]) >= 2
    /\ sent[k][b][Len(sent[k][b])] = "leave"
    /\ sent[k][b][Len(sent[k][b]) - 1] = "leave"
    /\ k \notin rooms[b]
    /\ rooms[b] # {}

\* a join-board handler of socket k for board b has not completed
JoinInFlight(k, b) ==
  \E h \in Suspended : h.conn = k /\ h.board = b /\ h.kind = "join-board"

\* C26: when a connection sends join-board(b) and afterwards leave-board(b),
\* then once both handlers have completed the connection is not in room b,
\* whatever the interleaving of the two handlers.
C26_LeaveAfterJoinWins ==
  \A k \in Conns, b \in Boards :
    (LastSent(k, b, "leave") /\ ~JoinInFlight(k, b)) => k \notin rooms[b]

\* C23: for total >= 0, page >= 1 and limit >= 1 createPaginationResponse
\* returns totalPages = ceil(total / limit), hasNext exactly when
\* page < totalPages and hasPrev exactly when page > 1; and
\* validatePaginationParams returns page >= 1 and 1 <= limit <= 100 for every
\* input.
C23_PaginationArithmetic ==
  /\ paging.phase # "idle" =>
       /\ paging.page >= 1
       /\ paging.limit >= 1 /\ paging.limit <= 100
  /\ paging.phase = "responded" =>
       /\ paging.totalPages * paging.limit >= paging.total
       /\ (paging.totalPages - 1) * paging.limit < paging.total
            \/ (paging.total = 0 /\ paging.totalPages = 0)
       /\ paging.hasNext <=> paging.page < paging.totalPages
       /\ paging.hasPrev <=> paging.page > 1

\* a response for a middle page whose last page is not full
C23_Witness ==
  /\ paging.phase = "responded"
  /\ paging.total % paging.limit # 0
  /\ paging.hasNext /\ paging.hasPrev

\* C24: a PUT /boards/:id by a user who is not the owner of the board is
\* answered 403, one for an id that names no board is answered 404, and in
\* both cases no board is modified.
C24_PutBoardRejections ==
  [][ \A u \in Users, b \in Boards, t \in Titles :
        PutBoard(u, b, t) =>
          /\ (b \in boards /\ BoardOwner[b] # u) =>
                (lastStatus' = 403 /\ boardTitle' = boardTitle /\ reqs' = reqs)
          /\ b \notin boards =>
                (lastStatus' = 404 /\ boardTitle' = boardTitle /\ reqs' = reqs) ]_vars

\* C29: a GET /boards response served from the cache never predates the
\* latest committed change to the boards, lists and cards it shows.
C29_CachedListingIsCurrent ==
  lastListing.hit => lastListing.data = {Listing(lastListing.user)}

\* C25: with a single client, once a drag's PUT /cards/:id/move has succeeded
\* and nothing is in flight, the order the server returns for every list of
\* the board (cards by ascending position) is the order of the client's
\* optimistic view.
C25_ServerOrderIsOptimisticView ==
  (reqs = EmptyBag /\ lastStatus = 200 /\ view.lists # {})
    => \A l \in view.lists : CardOrders(l) = {view.cards[l]}

\* C27: an event is relayed to the room of board b only on behalf of a
\* connection that is itself in the room of b.
C27_RelayOnlyFromRoomMember ==
  lastRelay # NoRelay => lastRelay.origin \in rooms[lastRelay.board]

\* C27 (amended): an event is relayed to the room of board b only on behalf
\* of a connection whose user was the owner or a member of b when the
\* handler's access query ran; the connection itself need not be in the room.
C27_RelayOnlyFromAuthorizedUser ==
  [][ /\ \A h \in Suspended :
           (RelayResume(h) /\ lastRelay' # NoRelay) => h.ok
      /\ \A h \in BagToSet(pending') :
           (h.kind \in RelayTypes /\ CopiesIn(h, pending') > CopiesIn(h, pending))
             => (h.ok <=> HasBoardAccess(conn[h.conn].user, h.board)) ]_vars

\* an event reaches the room from a connection that is outside the room
C27_Witness ==
  /\ lastRelay # NoRelay
  /\ lastRelay.origin \notin rooms[lastRelay.board]
  /\ lastRelay.to # {}

C30_ReceivedEventRefetches ==
  [][ Receive => view'.stale ]_vars

====
